---- MODULE Spec2Model ----
(***************************************************************************)
(* The priority engine of the Smart Task Analyzer                          *)
(* (backend/priority_algorithm.py), with the input validation of           *)
(* backend/serializers.py that decides which task lists reach it.          *)
(*                                                                         *)
(* Representation.                                                         *)
(*   - A date is an integer day number; (due_date - today).days is the     *)
(*     integer difference.                                                 *)
(*   - An optional id is <<>> (None, or the key absent) or <<n>>.          *)
(*   - estimated_hours is carried in tenths of an hour.                    *)
(*   - A factor score is carried in ten-thousandths of a point, a weight   *)
(*     in hundredths, the weighted sum in millionths; round(x, 2) yields   *)
(*     hundredths of a point.  math.log10 is tabulated to six decimals at  *)
(*     the sampled hour values.                                            *)
(*   - The title of a task is carried by no computation and is left out.   *)
(***************************************************************************)
EXTENDS Integers, Sequences, FiniteSets, TLC

VARIABLES
    today,           \* the wall-clock date, as date.today() reads it
    strategy,        \* self.strategy
    weights,         \* self.weights (NoWeights before __init__ ran)
    pc,              \* position of the call in progress
    tasks,           \* the caller's task list
    dependency_map,  \* analyze_tasks: dependency_map
    analyzed_tasks,  \* analyze_tasks: analyzed_tasks, as it stands / is returned
    count,           \* suggest_top_tasks: count
    top_tasks,       \* suggest_top_tasks: top_tasks
    next_reason,     \* suggest_top_tasks: position of the for loop over top_tasks
    result,          \* what the call returned or raised
    args,            \* arguments of a direct call of one method
    ret              \* its return value

vars == <<today, strategy, weights, pc, tasks, dependency_map, analyzed_tasks,
          count, top_tasks, next_reason, result, args, ret>>

(***************************************************************************)
(* Bounds of the model                                                     *)
(***************************************************************************)
MaxTasks == 2
MaxTicks == 1
MaxOverdue == 30
MaxDays == 95
MaxKeys == 2
MaxNode == 3

(***************************************************************************)
(* Helpers                                                                 *)
(***************************************************************************)
Min(a, b) == IF a <= b THEN a ELSE b

Max(a, b) == IF a >= b THEN a ELSE b

Abs(a) == IF a < 0 THEN 0 - a ELSE a

InSeq(x, s) == \E k \in 1..Len(s) : s[k] = x

\* list.index(x): the first position of x
IndexOf(x, s) == CHOOSE k \in 1..Len(s) : s[k] = x /\ \A j \in 1..(k - 1) : s[j] # x

NoneId == <<>>

SomeId(n) == <<n>>

\* Python truth of an optional integer: None and 0 are false
Truthy(id) == id # NoneId /\ id[1] # 0

(***************************************************************************)
(* Strategy weights, in hundredths                                         *)
(***************************************************************************)
DefinedStrategies == {"smart_balance", "fastest_wins", "high_impact", "deadline_driven"}

Strategies ==
    [ smart_balance   |-> [urgency |-> 35, importance |-> 30, effort |-> 15, dependencies |-> 20],
      fastest_wins    |-> [urgency |-> 20, importance |-> 20, effort |-> 50, dependencies |-> 10],
      high_impact     |-> [urgency |-> 15, importance |-> 60, effort |-> 10, dependencies |-> 15],
      deadline_driven |-> [urgency |-> 60, importance |-> 20, effort |-> 5,  dependencies |-> 15] ]

GetWeightsNoFallback(s) ==
    IF s \in DOMAIN Strategies THEN Strategies[s] ELSE Strategies["high_impact"]

\* strategies.get(self.strategy, strategies['smart_balance'])
GetWeights(s) ==
    IF s \in DOMAIN Strategies THEN Strategies[s] ELSE Strategies["smart_balance"]

NoWeights == [urgency |-> 0, importance |-> 0, effort |-> 0, dependencies |-> 0]

(***************************************************************************)
(* Factor scorers (ten-thousandths of a point)                             *)
(***************************************************************************)
\* the overdue branch capped at 150 instead of 100
UrgencyCap150(due_date, today_) ==
    LET days_until_due == due_date - today_ IN
    IF days_until_due < 0
    THEN LET overdue_penalty == Min(Abs(days_until_due) * 2, 50)
         IN  10000 * Min(150, 100 + overdue_penalty)
    ELSE IF days_until_due = 0 THEN 10000 * 95
    ELSE IF days_until_due <= 7 THEN 10000 * (90 - days_until_due * 4)
    ELSE IF days_until_due <= 14 THEN 10000 * (60 - (days_until_due - 7) * 2)
    ELSE IF days_until_due <= 30 THEN 10000 * (40 - (days_until_due - 14) * 1)
    ELSE Max(10000 * 10, 10000 * 40 - (days_until_due - 30) * 5000)

CalculateUrgencyScore(due_date, today_) ==
    LET days_until_due == due_date - today_ IN
    IF days_until_due < 0
    THEN LET overdue_penalty == Min(Abs(days_until_due) * 2, 50)
         IN  10000 * Min(100, 100 + overdue_penalty)
    ELSE IF days_until_due = 0 THEN 10000 * 95
    ELSE IF days_until_due <= 7 THEN 10000 * (90 - days_until_due * 4)
    ELSE IF days_until_due <= 14 THEN 10000 * (60 - (days_until_due - 7) * 2)
    ELSE IF days_until_due <= 30 THEN 10000 * (40 - (days_until_due - 14) * 1)
    ELSE Max(10000 * 10, 10000 * 40 - (days_until_due - 30) * 5000)

CalculateImportanceScore(importance) == 10000 * (importance * 10)

\* math.log10(estimated_hours + 1) in millionths, by tenths of an hour
Log10Table ==
    [h \in {10, 20, 90, 4000, 10000} |->
        CASE h = 10    -> 301030
          [] h = 20    -> 477121
          [] h = 90    -> 1000000
          [] h = 4000  -> 2603144
          [] h = 10000 -> 3000434]

CalculateEffortScore(estimated_hours) ==
    IF estimated_hours < 10
    THEN 10000 * 90 + (10 - estimated_hours) * 10000
    ELSE LET score == 10000 * 100 - (Log10Table[estimated_hours] * 35) \div 100
         IN  Max(10000 * 10, Min(10000 * 100, score))

\* dependency_map is a dict in insertion order: a sequence of [key, deps]
MapKeys(dmap) == {dmap[k].key : k \in 1..Len(dmap)}

MapGet(dmap, node) ==
    IF node \in MapKeys(dmap)
    THEN dmap[CHOOSE k \in 1..Len(dmap) : dmap[k].key = node].deps
    ELSE <<>>

CalculateDependencyScore(task_id, dmap) ==
    LET blocked_count ==
            Cardinality({k \in 1..Len(dmap) :
                            task_id # NoneId /\ InSeq(task_id[1], dmap[k].deps)})
        has_dependencies ==
            /\ task_id # NoneId
            /\ task_id[1] \in MapKeys(dmap)
            /\ Len(MapGet(dmap, task_id[1])) > 0
        score == 50 + Min(blocked_count * 10, 50) - (IF has_dependencies THEN 20 ELSE 0)
    IN  10000 * Max(0, Min(100, score))

(***************************************************************************)
(* detect_circular_dependencies                                            *)
(***************************************************************************)
RECURSIVE dfs(_, _, _, _)
RECURSIVE dfsLoop(_, _, _, _, _, _)

\* a traversal that prunes on the visited set before it looks at the path
dfsVisitedFirst(dmap, node, visited, path) ==
    IF node \in visited THEN [cycles |-> <<>>, visited |-> visited]
    ELSE IF InSeq(node, path)
    THEN [cycles |-> <<SubSeq(path, IndexOf(node, path), Len(path))>>, visited |-> visited]
    ELSE dfsLoop(dmap, MapGet(dmap, node), 1, visited \cup {node}, Append(path, node), <<>>)

\* a traversal that reports the whole path, not the part from the revisited node on
dfsWholePath(dmap, node, visited, path) ==
    IF InSeq(node, path) THEN [cycles |-> <<path>>, visited |-> visited]
    ELSE IF node \in visited THEN [cycles |-> <<>>, visited |-> visited]
    ELSE dfsLoop(dmap, MapGet(dmap, node), 1, visited \cup {node}, Append(path, node), <<>>)

\* dfs returns its cycles; the visited set is shared and is returned with them
dfs(dmap, node, visited, path) ==
    IF InSeq(node, path)
    THEN [cycles |-> <<SubSeq(path, IndexOf(node, path), Len(path))>>, visited |-> visited]
    ELSE IF node \in visited THEN [cycles |-> <<>>, visited |-> visited]
    ELSE dfsLoop(dmap, MapGet(dmap, node), 1, visited \cup {node}, Append(path, node), <<>>)

\* for dependency in dependency_map.get(node, []): cycles.extend(dfs(...))
dfsLoop(dmap, deps, k, visited, path, cycles) ==
    IF k > Len(deps) THEN [cycles |-> cycles, visited |-> visited]
    ELSE LET r == dfs(dmap, deps[k], visited, path)
         IN  dfsLoop(dmap, deps, k + 1, r.visited, path, cycles \o r.cycles)

RECURSIVE DetectLoop(_, _, _, _)
\* for task_id in dependency_map.keys(): if task_id not in visited: ...
DetectLoop(dmap, k, visited, all_cycles) ==
    IF k > Len(dmap) THEN all_cycles
    ELSE IF dmap[k].key \in visited THEN DetectLoop(dmap, k + 1, visited, all_cycles)
    ELSE LET r == dfs(dmap, dmap[k].key, visited, <<>>)
         IN  DetectLoop(dmap, k + 1, r.visited, all_cycles \o r.cycles)

DetectCircularDependencies(dmap) == DetectLoop(dmap, 1, {}, <<>>)

(***************************************************************************)
(* calculate_priority_score, get_priority_level                            *)
(***************************************************************************)
\* round(x, 2) of a value in ten-thousandths: hundredths
Round2(x) == (x + 50) \div 100

\* round(x, 2) of a weighted sum in millionths: hundredths.  A sum that is a decimal
\* half hundredth is, as the binary float the code holds, just below or just above
\* it, and rounds down or up accordingly: both outcomes are admitted.
Round2Sum(x) ==
    IF x % 10000 = 5000 THEN {x \div 10000, x \div 10000 + 1}
    ELSE {(x + 5000) \div 10000}

CalculatePriorityScore(task, dmap, w, today_) ==
    LET urgency == CalculateUrgencyScore(task.due_date, today_)
        importance == CalculateImportanceScore(task.importance)
        effort == CalculateEffortScore(task.estimated_hours)
        dependencies == CalculateDependencyScore(task.id, dmap)
        priority_score == urgency * w.urgency + importance * w.importance
                          + effort * w.effort + dependencies * w.dependencies
    IN  {[score |-> rounded,
          breakdown |-> [urgency |-> Round2(urgency),
                         importance |-> Round2(importance),
                         effort |-> Round2(effort),
                         dependencies |-> Round2(dependencies),
                         weights |-> w]] : rounded \in Round2Sum(priority_score)}

GetPriorityLevel(score) ==
    IF score >= 8000 THEN "Critical"
    ELSE IF score >= 6500 THEN "High"
    ELSE IF score >= 4500 THEN "Medium"
    ELSE "Low"

(***************************************************************************)
(* analyze_tasks                                                           *)
(***************************************************************************)
RECURSIVE BuildDependencyMap(_, _, _)
\* for task in tasks: if task_id and deps: dependency_map[task_id] = deps
BuildDependencyMap(ts, k, dmap) ==
    IF k > Len(ts) THEN dmap
    ELSE LET task_id == ts[k].id
             deps == ts[k].dependencies
         IN  IF Truthy(task_id) /\ Len(deps) > 0
             THEN IF task_id[1] \in MapKeys(dmap)
                  THEN BuildDependencyMap(ts, k + 1,
                           [j \in 1..Len(dmap) |->
                               IF dmap[j].key = task_id[1]
                               THEN [key |-> task_id[1], deps |-> deps] ELSE dmap[j]])
                  ELSE BuildDependencyMap(ts, k + 1,
                           Append(dmap, [key |-> task_id[1], deps |-> deps]))
             ELSE BuildDependencyMap(ts, k + 1, dmap)

NoReason == [prefix |-> "", reasons |-> <<>>]

\* {**task, 'priority_score': ..., 'priority_level': ..., 'score_breakdown': ...};
\* input_index stands for the identity of the input record the copy was made of
AnalyzedTask(task, k, ps) ==
    [id |-> task.id, due_date |-> task.due_date,
     estimated_hours |-> task.estimated_hours, importance |-> task.importance,
     dependencies |-> task.dependencies,
     priority_score |-> ps.score,
     priority_level |-> GetPriorityLevel(ps.score),
     score_breakdown |-> ps.breakdown,
     reason |-> NoReason,
     input_index |-> k]

\* the keys written into the dict they were read from: task.update({...})
UpdateInPlace(task, k, ps) ==
    [source |-> AnalyzedTask(task, k, ps), made |-> AnalyzedTask(task, k, ps)]

\* analyzed_task = {**task, ...} as a statement on the heap: `made` is the new
\* dict, `source` is the dict it was unpacked from, as the statement leaves it
UnpackIntoNewDict(task, k, ps) ==
    [source |-> task, made |-> AnalyzedTask(task, k, ps)]

\* an insertion that places x before the entries of equal score
InsertDescUnstable(x, s) ==
    LET before == {p \in 1..Len(s) : s[p].priority_score > x.priority_score}
        n == Cardinality(before)
    IN  SubSeq(s, 1, n) \o <<x>> \o SubSeq(s, n + 1, Len(s))

\* s is sorted by non-increasing score: x goes after every entry that is not smaller
InsertDesc(x, s) ==
    LET before == {p \in 1..Len(s) : s[p].priority_score >= x.priority_score}
        n == Cardinality(before)
    IN  SubSeq(s, 1, n) \o <<x>> \o SubSeq(s, n + 1, Len(s))

RECURSIVE SortDescPrefix(_, _)
SortDescPrefix(s, n) ==
    IF n = 0 THEN <<>> ELSE InsertDesc(s[n], SortDescPrefix(s, n - 1))

\* list.sort(key=lambda x: x['priority_score'], reverse=True): stable
SortByScoreDesc(s) == SortDescPrefix(s, Len(s))

(***************************************************************************)
(* suggest_top_tasks, _generate_reason                                     *)
(***************************************************************************)
SliceOneShort(s, n) ==
    IF n >= 0 THEN SubSeq(s, 1, Min(n, Len(s)) - 1)
    ELSE SubSeq(s, 1, Max(0, Len(s) + n))

\* s[:n]
Slice(s, n) ==
    IF n >= 0 THEN SubSeq(s, 1, Min(n, Len(s)))
    ELSE SubSeq(s, 1, Max(0, Len(s) + n))

Phrase(text, days) == [text |-> text, days |-> days]

\* "quick win" appended before "high importance"
GenerateReasonQuickFirst(task, strat, today_) ==
    LET breakdown == task.score_breakdown
        days_until == task.due_date - today_
        deadline ==
            IF days_until < 0 THEN <<Phrase("overdue by {} day(s)", Abs(days_until))>>
            ELSE IF days_until = 0 THEN <<Phrase("due today", 0)>>
            ELSE IF days_until <= 3 THEN <<Phrase("due in {} day(s)", days_until)>>
            ELSE <<>>
        high == IF task.importance >= 8 THEN <<Phrase("high importance", 0)>> ELSE <<>>
        quick == IF task.estimated_hours <= 20 THEN <<Phrase("quick win", 0)>> ELSE <<>>
        blocks == IF breakdown.dependencies > 7000
                  THEN <<Phrase("blocks other tasks", 0)>> ELSE <<>>
        bonus ==
            IF strat = "fastest_wins" /\ task.estimated_hours <= 10
            THEN <<Phrase("fast to complete", 0)>>
            ELSE IF strat = "high_impact" /\ task.importance >= 8
            THEN <<Phrase("maximum impact", 0)>>
            ELSE IF strat = "deadline_driven" /\ days_until <= 2
            THEN <<Phrase("urgent deadline", 0)>>
            ELSE <<>>
        reasons == deadline \o quick \o high \o blocks \o bonus
    IN  [prefix |-> "Recommended because: ",
         reasons |-> IF reasons = <<>>
                     THEN <<Phrase("balanced priority across all factors", 0)>>
                     ELSE reasons]

GenerateReason(task, strat, today_) ==
    LET breakdown == task.score_breakdown
        days_until == task.due_date - today_
        deadline ==
            IF days_until < 0 THEN <<Phrase("overdue by {} day(s)", Abs(days_until))>>
            ELSE IF days_until = 0 THEN <<Phrase("due today", 0)>>
            ELSE IF days_until <= 3 THEN <<Phrase("due in {} day(s)", days_until)>>
            ELSE <<>>
        high == IF task.importance >= 8 THEN <<Phrase("high importance", 0)>> ELSE <<>>
        quick == IF task.estimated_hours <= 20 THEN <<Phrase("quick win", 0)>> ELSE <<>>
        blocks == IF breakdown.dependencies > 7000
                  THEN <<Phrase("blocks other tasks", 0)>> ELSE <<>>
        bonus ==
            IF strat = "fastest_wins" /\ task.estimated_hours <= 10
            THEN <<Phrase("fast to complete", 0)>>
            ELSE IF strat = "high_impact" /\ task.importance >= 8
            THEN <<Phrase("maximum impact", 0)>>
            ELSE IF strat = "deadline_driven" /\ days_until <= 2
            THEN <<Phrase("urgent deadline", 0)>>
            ELSE <<>>
        reasons == deadline \o high \o quick \o blocks \o bonus
    IN  [prefix |-> "Recommended because: ",
         reasons |-> IF reasons = <<>>
                     THEN <<Phrase("balanced priority across all factors", 0)>>
                     ELSE reasons]

(***************************************************************************)
(* Input validation (serializers.py)                                       *)
(***************************************************************************)
\* TaskListInputSerializer.validate_tasks: no two tasks share a non-null id
ValidateTasks(ts) ==
    \A i, j \in 1..Len(ts) : (i # j /\ ts[i].id # NoneId) => ts[i].id # ts[j].id

TaskRecords(ids, deps, dues, imps, hours) ==
    [id : ids, dependencies : deps, due_date : dues, importance : imps,
     estimated_hours : hours]

TaskLists(S, maxlen) == {ts \in UNION {[1..n -> S] : n \in 0..maxlen} : ValidateTasks(ts)}

(***************************************************************************)
(* The calls as a state machine                                            *)
(***************************************************************************)
NoResult == [kind |-> "none", value |-> <<>>]

InitCall(strategies, lists) ==
    /\ today = 0
    /\ strategy \in strategies
    /\ weights = NoWeights
    /\ pc = "new"
    /\ tasks \in lists
    /\ dependency_map = <<>>
    /\ analyzed_tasks = <<>>
    /\ count = 0
    /\ top_tasks = <<>>
    /\ next_reason = 1
    /\ result = NoResult
    /\ args = <<>>
    /\ ret = <<>>

\* PriorityAlgorithm(strategy)
Construct ==
    /\ pc = "new"
    /\ weights' = GetWeights(strategy)
    /\ pc' = "ready"
    /\ UNCHANGED <<today, strategy, tasks, dependency_map, analyzed_tasks, count,
                   top_tasks, next_reason, result, args, ret>>

\* analyze_tasks up to the cycle check
AnalyzeEnter ==
    /\ pc = "ready"
    /\ LET dmap == BuildDependencyMap(tasks, 1, <<>>)
           cycles == DetectCircularDependencies(dmap)
       IN  /\ dependency_map' = dmap
           /\ IF cycles # <<>>
              THEN /\ pc' = "raised"
                   /\ result' = [kind |-> "ValueError", value |-> cycles]
              ELSE /\ pc' = "scoring"
                   /\ result' = result
    /\ UNCHANGED <<today, strategy, weights, tasks, analyzed_tasks, count, top_tasks,
                   next_reason, args, ret>>

\* one round of the scoring loop: calculate_urgency_score reads date.today()
ScoreTask ==
    /\ pc = "scoring"
    /\ Len(analyzed_tasks) < Len(tasks)
    /\ LET k == Len(analyzed_tasks) + 1
       IN  \E ps \in CalculatePriorityScore(tasks[k], dependency_map, weights, today) :
               LET stmt == UnpackIntoNewDict(tasks[k], k, ps)
               IN  /\ analyzed_tasks' = Append(analyzed_tasks, stmt.made)
                   /\ tasks' = [tasks EXCEPT ![k] = stmt.source]
    /\ UNCHANGED <<today, strategy, weights, pc, dependency_map, count,
                   top_tasks, next_reason, result, args, ret>>

\* the sort that ends analyze_tasks
SortTasks ==
    /\ pc = "scoring"
    /\ Len(analyzed_tasks) = Len(tasks)
    /\ analyzed_tasks' = SortByScoreDesc(analyzed_tasks)
    /\ pc' = "analyzed"
    /\ UNCHANGED <<today, strategy, weights, tasks, dependency_map, count, top_tasks,
                   next_reason, result, args, ret>>

\* analyze_tasks was the call: it returns the ranked list
ReturnAnalyze ==
    /\ pc = "analyzed"
    /\ result' = [kind |-> "analyzed", value |-> analyzed_tasks]
    /\ pc' = "done"
    /\ UNCHANGED <<today, strategy, weights, tasks, dependency_map, analyzed_tasks,
                   count, top_tasks, next_reason, args, ret>>

\* suggest_top_tasks(tasks, c) was the call: top_tasks = analyzed_tasks[:count]
SliceTop ==
    /\ pc = "analyzed"
    /\ \E c \in (0 - 1)..(MaxTasks + 1) :
          /\ count' = c
          /\ top_tasks' = Slice(analyzed_tasks, c)
    /\ next_reason' = 1
    /\ pc' = "reasons"
    /\ UNCHANGED <<today, strategy, weights, tasks, dependency_map, analyzed_tasks,
                   result, args, ret>>

\* one round of the reason loop: _generate_reason reads date.today()
ReasonTask ==
    /\ pc = "reasons"
    /\ next_reason <= Len(top_tasks)
    /\ top_tasks' = [top_tasks EXCEPT ![next_reason].reason =
                        GenerateReason(top_tasks[next_reason], strategy, today)]
    /\ next_reason' = next_reason + 1
    /\ UNCHANGED <<today, strategy, weights, pc, tasks, dependency_map, analyzed_tasks,
                   count, result, args, ret>>

ReturnSuggest ==
    /\ pc = "reasons"
    /\ next_reason > Len(top_tasks)
    /\ result' = [kind |-> "suggested", value |-> top_tasks]
    /\ pc' = "done"
    /\ UNCHANGED <<today, strategy, weights, tasks, dependency_map, analyzed_tasks,
                   count, top_tasks, next_reason, args, ret>>

\* midnight passes while a call is set up or in progress
Tick ==
    /\ pc \in {"new", "ready", "scoring", "analyzed", "reasons"}
    /\ today < MaxTicks
    /\ today' = today + 1
    /\ UNCHANGED <<strategy, weights, pc, tasks, dependency_map, analyzed_tasks, count,
                   top_tasks, next_reason, result, args, ret>>

Next ==
    \/ Construct
    \/ AnalyzeEnter
    \/ ScoreTask
    \/ SortTasks
    \/ ReturnAnalyze
    \/ SliceTop
    \/ ReasonTask
    \/ ReturnSuggest
    \/ Tick

StrategyNames == DefinedStrategies \cup {"custom"}

OptionalIds(S) == {NoneId} \cup {SomeId(n) : n \in S}

ShortLists(S) == {<<>>} \cup {<<a>> : a \in S}

\* task lists whose ids and dependencies vary
GraphTasks ==
    TaskRecords(OptionalIds(0..2), ShortLists(0..2), {0}, {5}, {20})

Init == InitCall(StrategyNames, TaskLists(GraphTasks, MaxTasks))

Spec == Init /\ [][Next]_vars

\* one-task lists whose due date, importance and effort vary
WideTasks ==
    TaskRecords({NoneId, SomeId(1)}, {<<>>, <<2>>}, (0 - MaxOverdue)..MaxDays, 1..10,
                {1, 5, 10, 20, 90, 4000, 10000})

InitWide == InitCall({"smart_balance", "deadline_driven"}, TaskLists(WideTasks, 1))

SpecWide == InitWide /\ [][Next]_vars

\* four-task lists: a first task whose due date, importance and effort vary, and
\* three tasks that each may depend on it
HubTasks == TaskRecords({SomeId(1)}, {<<>>}, {0 - 1, 0, 1, 3, 4, 10}, {7, 8}, {10, 20, 90})

DependantTasks(n) == TaskRecords({SomeId(n)}, {<<>>, <<1>>}, {10}, {5}, {90})

HubLists ==
    {<<h, a, b, c>> : h \in HubTasks, a \in DependantTasks(2), b \in DependantTasks(3),
                      c \in DependantTasks(4)}

InitReasons == InitCall(StrategyNames, {ts \in HubLists : ValidateTasks(ts)})

SpecReasons == InitReasons /\ [][Next]_vars

(***************************************************************************)
(* Direct calls of one method                                              *)
(***************************************************************************)
InitDirect(at, arguments, dates) ==
    /\ today \in dates
    /\ strategy = "smart_balance"
    /\ weights = GetWeights("smart_balance")
    /\ pc = at
    /\ tasks = <<>>
    /\ dependency_map = <<>>
    /\ analyzed_tasks = <<>>
    /\ count = 0
    /\ top_tasks = <<>>
    /\ next_reason = 1
    /\ result = NoResult
    /\ args \in arguments
    /\ ret = <<>>

\* dicts of at most MaxKeys keys among the nodes 1..MaxNode, in every key order,
\* whose lists hold up to two nodes (self-references and duplicates included)
DepLists == {<<>>} \cup {<<a>> : a \in 1..MaxNode} \cup {<<a, b>> : a, b \in 1..MaxNode}

DepMaps ==
    {m \in UNION {[1..n -> [key : 1..MaxNode, deps : DepLists]] : n \in 0..MaxKeys} :
        \A i, j \in 1..Len(m) : i # j => m[i].key # m[j].key}

\* detect_circular_dependencies(args)
DetectCall ==
    /\ pc = "detect_call"
    /\ ret' = DetectCircularDependencies(args)
    /\ pc' = "detect_ret"
    /\ UNCHANGED <<today, strategy, weights, tasks, dependency_map, analyzed_tasks,
                   count, top_tasks, next_reason, result, args>>

InitDetect == InitDirect("detect_call", DepMaps, {0})

SpecDetect == InitDetect /\ [][DetectCall]_vars

\* calculate_urgency_score(args[1]) and calculate_urgency_score(args[2]), same day
UrgencyCall ==
    /\ pc = "urgency_call"
    /\ ret' = <<CalculateUrgencyScore(args[1], today), CalculateUrgencyScore(args[2], today)>>
    /\ pc' = "urgency_ret"
    /\ UNCHANGED <<today, strategy, weights, tasks, dependency_map, analyzed_tasks,
                   count, top_tasks, next_reason, result, args>>

InitUrgency ==
    InitDirect("urgency_call",
               ((0 - MaxOverdue)..MaxDays) \X ((0 - MaxOverdue)..MaxDays), 0..MaxTicks)

SpecUrgency == InitUrgency /\ [][UrgencyCall]_vars

(***************************************************************************)
(* The dependency graph, independently of the traversal                    *)
(***************************************************************************)
RECURSIVE Closure(_)
\* the transitive closure of a finite relation
Closure(R) ==
    LET step == R \cup {g \in {<<e[1], f[2]>> : e, f \in R} :
                           \E e, f \in R : e[2] = f[1] /\ g = <<e[1], f[2]>>}
    IN  IF step = R THEN R ELSE Closure(step)

\* following edges from some node leads back to that node
HasLoop(E) == \E e \in Closure(E) : e[1] = e[2]

MapEdges(dmap) ==
    UNION {{<<dmap[k].key, dmap[k].deps[j]>> : j \in 1..Len(dmap[k].deps)} : k \in 1..Len(dmap)}

\* the "depends on" edges of a task list: from each task that has an id to each of
\* its dependencies
TaskEdges(ts) ==
    UNION {{<<ts[k].id[1], ts[k].dependencies[j]>> : j \in 1..Len(ts[k].dependencies)} :
              k \in {i \in 1..Len(ts) : ts[i].id # NoneId}}

CheckPassed == pc \in {"scoring", "analyzed", "reasons", "done"}

(***************************************************************************)
(* C1: analyze_tasks raises the circular-dependency error, and returns no  *)
(* ranked list, whenever the "depends on" edges of the task list hold a    *)
(* loop, and it returns the full ranked list whenever they hold none; no   *)
(* task is scored before the cycle check has passed.  (The claim as it     *)
(* stands: the code does not meet it.)                                     *)
(***************************************************************************)
C1_CycleAlwaysRaises ==
    /\ pc \in {"new", "ready", "raised"} => analyzed_tasks = <<>>
    /\ pc = "raised" => result.kind = "ValueError" /\ HasLoop(TaskEdges(tasks))
    /\ CheckPassed => ~HasLoop(TaskEdges(tasks))
    /\ (pc = "done" /\ result.kind = "analyzed") => Len(result.value) = Len(tasks)

(***************************************************************************)
(* C2: detect_circular_dependencies returns a non-empty list if and only   *)
(* if the directed graph of the dependency map contains a cycle, whatever  *)
(* the order of the keys.                                                  *)
(***************************************************************************)
C2_DetectIffCycle ==
    pc = "detect_ret" => ((ret # <<>>) <=> HasLoop(MapEdges(args)))

C2_Witness ==
    /\ pc = "detect_ret"
    /\ Len(args) = 2
    /\ args[1].key > args[2].key
    /\ \E k \in 1..2 : Len(args[k].deps) = 2 /\ args[k].deps[1] \notin MapKeys(args)
    /\ HasLoop(MapEdges(args))
    /\ ret # <<>>

(***************************************************************************)
(* C3: for a task list without a dependency cycle, analyze_tasks returns a *)
(* permutation of the input tasks (same length, each input task exactly    *)
(* once), ordered by non-increasing priority_score, tasks of equal score   *)
(* in their input order.                                                   *)
(***************************************************************************)
InputFields(r) ==
    [id |-> r.id, due_date |-> r.due_date, estimated_hours |-> r.estimated_hours,
     importance |-> r.importance, dependencies |-> r.dependencies]

C3_RankedPermutation ==
    pc \in {"analyzed", "reasons", "done"} =>
        LET out == analyzed_tasks IN
        /\ Len(out) = Len(tasks)
        /\ {out[k].input_index : k \in 1..Len(out)} = 1..Len(tasks)
        /\ \A k \in 1..Len(out) : InputFields(out[k]) = tasks[out[k].input_index]
        /\ \A i, j \in 1..Len(out) :
              i < j => /\ out[i].priority_score >= out[j].priority_score
                       /\ (out[i].priority_score = out[j].priority_score
                             => out[i].input_index < out[j].input_index)

C3_Witness ==
    /\ pc = "done"
    /\ result.kind = "analyzed"
    /\ Len(result.value) = 2
    /\ result.value[1].priority_score = result.value[2].priority_score
    /\ result.value[1].id # result.value[2].id
    /\ result.value[1].dependencies # <<>>
    /\ result.value[1].input_index = 1

(***************************************************************************)
(* C4: calculate_urgency_score is non-increasing in days_until_due over    *)
(* the non-overdue values (0 <= d1 < d2 gives urgency(d1) >= urgency(d2),  *)
(* across the branch boundaries too), and a due date equal to today scores *)
(* exactly 95.  (The claim as it stands: the code does not meet it.)       *)
(***************************************************************************)
C4_UrgencyNonIncreasing ==
    pc = "urgency_ret" =>
        LET d1 == args[1] - today
            d2 == args[2] - today
        IN  /\ (0 <= d1 /\ d1 < d2) => ret[1] >= ret[2]
            /\ d1 = 0 => ret[1] = 10000 * 95

(***************************************************************************)
(* C5: for an overdue task the urgency score is at least 100 and grows     *)
(* with lateness, 2 points per day overdue, the penalty capped at +50, so  *)
(* that it reaches 150.  (The claim as it stands: the code does not meet   *)
(* it.)                                                                    *)
(***************************************************************************)
C5_OverdueGrows ==
    pc = "urgency_ret" =>
        LET late == today - args[1]
        IN  late > 0 => /\ ret[1] >= 10000 * 100
                        /\ ret[1] = 10000 * (100 + Min(2 * late, 50))

(***************************************************************************)
(* C6: for every valid task and every strategy, each of the four factor    *)
(* scores stored in score_breakdown (urgency, importance, effort,          *)
(* dependencies) lies in [0, 100].                                         *)
(***************************************************************************)
FactorsInRange(b) ==
    \A f \in {b.urgency, b.importance, b.effort, b.dependencies} : 0 <= f /\ f <= 10000

C6_FactorsWithin0And100 ==
    /\ \A k \in 1..Len(analyzed_tasks) : FactorsInRange(analyzed_tasks[k].score_breakdown)
    /\ \A k \in 1..Len(top_tasks) : FactorsInRange(top_tasks[k].score_breakdown)
    /\ result.kind \in {"analyzed", "suggested"} =>
          \A k \in 1..Len(result.value) : FactorsInRange(result.value[k].score_breakdown)

C6_Witness ==
    /\ pc = "done"
    /\ result.kind = "analyzed"
    /\ Len(result.value) = 1
    /\ today - result.value[1].due_date > 25
    /\ result.value[1].score_breakdown.urgency = 10000
    /\ result.value[1].estimated_hours = 1
    /\ result.value[1].score_breakdown.effort = 9900
    /\ result.value[1].score_breakdown.importance = 10000

(***************************************************************************)
(* C7: the dependency score of every analyzed task equals                  *)
(* clamp(50 + min(10 * blocked_count, 50) - (20 if the task has at least   *)
(* one dependency else 0), 0, 100), blocked_count being the number of      *)
(* other tasks of the list whose dependency list contains the task's id; a *)
(* task without an id scores exactly 50 and is counted neither as blocking *)
(* nor as blocked.  Stated for the lists whose "depends on" edges hold no   *)
(* loop.  (The claim as it stands: the code does not meet it.)             *)
(***************************************************************************)
ClaimedDependencyScore(ts, k) ==
    IF ts[k].id = NoneId THEN 50
    ELSE LET blocked_count ==
                 Cardinality({j \in 1..Len(ts) :
                                 /\ j # k
                                 /\ ts[j].id # NoneId
                                 /\ InSeq(ts[k].id[1], ts[j].dependencies)})
             penalty == IF Len(ts[k].dependencies) > 0 THEN 20 ELSE 0
         IN  Max(0, Min(100, 50 + Min(10 * blocked_count, 50) - penalty))

C7_DependencyScoreFormula ==
    ~HasLoop(TaskEdges(tasks)) =>
    \A k \in 1..Len(analyzed_tasks) :
        analyzed_tasks[k].score_breakdown.dependencies
            = 100 * ClaimedDependencyScore(tasks, analyzed_tasks[k].input_index)

(***************************************************************************)
(* C8: for every count >= 0, suggest_top_tasks returns exactly             *)
(* min(count, len(tasks)) recommendations, the first entries of the        *)
(* analyze_tasks ranking in the same order, each with a reason that begins *)
(* with "Recommended because:".                                            *)
(***************************************************************************)
C8_TopOfRanking ==
    (pc = "done" /\ result.kind = "suggested" /\ count >= 0) =>
        /\ Len(result.value) = Min(count, Len(tasks))
        /\ \A k \in 1..Len(result.value) :
              /\ [result.value[k] EXCEPT !.reason = NoReason] = analyzed_tasks[k]
              /\ result.value[k].reason.prefix = "Recommended because: "
              /\ result.value[k].reason.reasons # <<>>

C8_Witness ==
    /\ pc = "done"
    /\ result.kind = "suggested"
    /\ Len(tasks) = 2
    /\ count = 3
    /\ Len(result.value) = 2
    /\ result.value[1].priority_score > result.value[2].priority_score
    /\ result.value[2].reason.prefix = "Recommended because: "

(***************************************************************************)
(* C9: within one analyze_tasks or suggest_top_tasks call every urgency    *)
(* score and every generated reason is computed against one and the same   *)
(* date, even if the wall-clock date advances during the call.  (The claim *)
(* as it stands: the code does not meet it.)                               *)
(***************************************************************************)
C9_OneDatePerCall ==
    (pc = "done" /\ result.kind \in {"analyzed", "suggested"}) =>
        \E d \in 0..MaxTicks :
            \A k \in 1..Len(result.value) :
                LET t == result.value[k] IN
                /\ t.score_breakdown.urgency = Round2(CalculateUrgencyScore(t.due_date, d))
                /\ result.kind = "suggested" => t.reason = GenerateReason(t, strategy, d)

(***************************************************************************)
(* C10: constructing the engine with one of the four defined strategy      *)
(* names selects that strategy's weights, every quadruple is non-negative  *)
(* and sums to 1.0, any other name raises no error and selects the         *)
(* smart_balance weights (.35, .30, .15, .20), and the fastest_wins effort *)
(* weight is greater than the smart_balance one.                           *)
(***************************************************************************)
Quad(u, i, e, d) == [urgency |-> u, importance |-> i, effort |-> e, dependencies |-> d]

C10_StrategyWeights ==
    pc # "new" =>
        /\ strategy = "smart_balance" => weights = Quad(35, 30, 15, 20)
        /\ strategy = "fastest_wins" => weights = Quad(20, 20, 50, 10)
        /\ strategy = "high_impact" => weights = Quad(15, 60, 10, 15)
        /\ strategy = "deadline_driven" => weights = Quad(60, 20, 5, 15)
        /\ strategy \notin DefinedStrategies => weights = Quad(35, 30, 15, 20)
        /\ \A f \in {"urgency", "importance", "effort", "dependencies"} : weights[f] >= 0
        /\ weights.urgency + weights.importance + weights.effort + weights.dependencies = 100
        /\ strategy = "fastest_wins" => weights.effort > 15

C10_Witness ==
    /\ pc = "ready"
    /\ strategy = "custom"
    /\ weights = Quad(35, 30, 15, 20)

(***************************************************************************)
(* C11: analyze_tasks and suggest_top_tasks leave the caller's input       *)
(* unchanged: no step of a call, successful or failing with the cycle      *)
(* error, changes the length or the order of the input list or a field or  *)
(* a value of an input record; priority_score, priority_level,             *)
(* score_breakdown and reason are added to the newly made records only.    *)
(***************************************************************************)
C11_InputUnchanged == [][tasks' = tasks]_vars

C11_Witness ==
    /\ pc = "done"
    /\ result.kind = "suggested"
    /\ Len(result.value) = 2
    /\ result.value[1].input_index = 2
    /\ result.value[1].reason # NoReason
    /\ result.value[1].priority_score > result.value[2].priority_score
    /\ \A k \in 1..Len(tasks) :
          DOMAIN tasks[k] = {"id", "due_date", "estimated_hours", "importance", "dependencies"}

(***************************************************************************)
(* C12: the reason of every recommended task lists the fired triggers in   *)
(* the fixed order: at most one deadline phrase (overdue / due today / due *)
(* within 3 days), then "high importance" (importance >= 8), then "quick   *)
(* win" (estimated_hours <= 2), then "blocks other tasks" (dependency      *)
(* score > 70), then at most one strategy-specific bonus; the fallback     *)
(* phrase appears if and only if no trigger fired, and then alone.  The    *)
(* deadline is taken against the date _generate_reason reads.              *)
(***************************************************************************)
ReasonRank(text) ==
    CASE text \in {"overdue by {} day(s)", "due today", "due in {} day(s)"} -> 1
      [] text = "high importance" -> 2
      [] text = "quick win" -> 3
      [] text = "blocks other tasks" -> 4
      [] text \in {"fast to complete", "maximum impact", "urgent deadline"} -> 5
      [] OTHER -> 6

ReasonAsClaimed(t, strat, d) ==
    LET rs == t.reason.reasons
        days == t.due_date - d
        Has(text) == \E k \in 1..Len(rs) : rs[k].text = text
        HasDays(text, n) == \E k \in 1..Len(rs) : rs[k].text = text /\ rs[k].days = n
        fired == \/ days <= 3
                 \/ t.importance >= 8
                 \/ t.estimated_hours <= 20
                 \/ t.score_breakdown.dependencies > 7000
    IN  /\ \A i, j \in 1..Len(rs) : i < j => ReasonRank(rs[i].text) < ReasonRank(rs[j].text)
        /\ Has("overdue by {} day(s)") <=> days < 0
        /\ days < 0 => HasDays("overdue by {} day(s)", 0 - days)
        /\ Has("due today") <=> days = 0
        /\ Has("due in {} day(s)") <=> (1 <= days /\ days <= 3)
        /\ (1 <= days /\ days <= 3) => HasDays("due in {} day(s)", days)
        /\ Has("high importance") <=> t.importance >= 8
        /\ Has("quick win") <=> t.estimated_hours <= 20
        /\ Has("blocks other tasks") <=> t.score_breakdown.dependencies > 7000
        /\ Has("fast to complete") <=> (strat = "fastest_wins" /\ t.estimated_hours <= 10)
        /\ Has("maximum impact") <=> (strat = "high_impact" /\ t.importance >= 8)
        /\ Has("urgent deadline") <=> (strat = "deadline_driven" /\ days <= 2)
        /\ Has("balanced priority across all factors") <=> ~fired
        /\ Has("balanced priority across all factors") => Len(rs) = 1
        /\ \A k \in 1..Len(rs) :
              rs[k].text \in {"overdue by {} day(s)", "due today", "due in {} day(s)",
                              "high importance", "quick win", "blocks other tasks",
                              "fast to complete", "maximum impact", "urgent deadline",
                              "balanced priority across all factors"}

C12_ReasonOrder ==
    [][(pc = "reasons" /\ next_reason' = next_reason + 1)
          => ReasonAsClaimed(top_tasks'[next_reason], strategy, today)]_vars

C12_Witness ==
    /\ pc = "done"
    /\ result.kind = "suggested"
    /\ \E k \in 1..Len(result.value) :
          LET rs == result.value[k].reason.reasons IN
          /\ Len(rs) = 5
          /\ rs[1].text = "due in {} day(s)"
          /\ rs[4].text = "blocks other tasks"
          /\ rs[5].text = "maximum impact"
    /\ \E k \in 1..Len(result.value) :
          result.value[k].reason.reasons = <<Phrase("balanced priority across all factors", 0)>>

(***************************************************************************)
(* C13: every cycle detect_circular_dependencies returns is a genuine loop *)
(* of the dependency map: a non-empty sequence of ids without repetition   *)
(* in which each id has the next id in its dependency list and the last id *)
(* has the first one in its dependency list, so that the sequence starts   *)
(* at the node the traversal came back to.                                 *)
(***************************************************************************)
GenuineLoop(dmap, c) ==
    /\ Len(c) >= 1
    /\ \A i, j \in 1..Len(c) : i # j => c[i] # c[j]
    /\ \A i \in 1..(Len(c) - 1) : InSeq(c[i + 1], MapGet(dmap, c[i]))
    /\ InSeq(c[1], MapGet(dmap, c[Len(c)]))

C13_CyclesAreLoops ==
    pc = "detect_ret" => \A k \in 1..Len(ret) : GenuineLoop(args, ret[k])

C13_Witness ==
    /\ pc = "detect_ret"
    /\ Len(args) = 2
    /\ Len(ret) = 1
    /\ ret[1][1] # args[1].key
    /\ InSeq(ret[1][1], args[1].deps)
    /\ GenuineLoop(args, ret[1])

====
